---- MODULE Spec2Model ----
(***************************************************************************)
(* Model of internal/fzf/fzf.go: the bubbletea Model of the interactive    *)
(* finder, its Update handler and its View renderer.                       *)
(*                                                                         *)
(* Go strings are byte strings, and len() counts bytes.  A string is       *)
(* modelled as a sequence of byte tokens: an ASCII byte is written as the  *)
(* one-character string of that byte ("a", "+"), any other byte as its hex *)
(* name ("0xC3").                                                          *)
(***************************************************************************)
EXTENDS Integers, Sequences, FiniteSets, TLC

VARIABLES Config, Selected, searchStr, selectedIdx, helpShown, done, msg, cmd,
          other

vars == <<Config, Selected, searchStr, selectedIdx, helpShown, done, msg, cmd,
          other>>

\* Longest candidate list drawn in Init.
MaxList == 12
\* Longest searchStr the environment types (guard of the typing action).
MaxLen == 2

Min(a, b) == IF a < b THEN a ELSE b
Max(a, b) == IF a > b THEN a ELSE b

(***************************************************************************)
(* Key strings, as tea.KeyMsg.String() returns them.                       *)
(***************************************************************************)
KeyCtrlC == <<"c", "t", "r", "l", "+", "c">>
KeyCtrlW == <<"c", "t", "r", "l", "+", "w">>
KeyUp == <<"u", "p">>
KeyCtrlP == <<"c", "t", "r", "l", "+", "p">>
KeyDown == <<"d", "o", "w", "n">>
KeyCtrlN == <<"c", "t", "r", "l", "+", "n">>
KeyEnter == <<"e", "n", "t", "e", "r">>
KeyBackspace == <<"b", "a", "c", "k", "s", "p", "a", "c", "e">>
KeyHelp == <<"?">>
KeyTab == <<"t", "a", "b">>
KeyAltA == <<"a", "l", "t", "+", "a">>
\* One-byte runes, and U+00E9 whose UTF-8 encoding is the two bytes C3 A9.
KeyA == <<"a">>
KeyB == <<"b">>
KeyEAcute == <<"0xC3", "0xA9">>

BoundKeys == {KeyCtrlC, KeyCtrlW, KeyUp, KeyCtrlP, KeyDown, KeyCtrlN,
              KeyEnter, KeyBackspace, KeyHelp}
RuneKeys == {KeyA, KeyB, KeyEAcute}
OtherKeys == {KeyTab, KeyAltA}

KeyMsg(s) == [type |-> "KeyMsg", str |-> s]
WindowSizeMsg == [type |-> "WindowSizeMsg", str |-> <<>>]
NoMsg == [type |-> "none", str |-> <<>>]

\* msg.String()
String(k) == k.str

\* len(s) of a Go string: its number of bytes.
len(s) == Len(s)

(***************************************************************************)
(* The Model value.                                                        *)
(***************************************************************************)
Model == [Config |-> Config, Selected |-> Selected, searchStr |-> searchStr,
          selectedIdx |-> selectedIdx, helpShown |-> helpShown, done |-> done]

\* A string of k bytes "x".
Rep(x, k) == [j \in 1..k |-> x]

\* The candidate lists config.Read hands to initialModel: the first n
\* entries of one list whose alias and path lengths vary with the index and
\* whose entries after the tenth are longer than all of the first ten.  The
\* second alias holds a two-byte rune (three bytes, two runes).
DirAlias(i) ==
    [Alias |-> IF i = 2 THEN KeyEAcute \o <<"n">>
               ELSE Rep("n", IF i > 10 THEN 4 ELSE 1 + (i % 3)),
     Path |-> <<"/">> \o Rep("p", IF i > 10 THEN 5 ELSE i % 4)]

DirAliases(n) == [i \in 1..n |-> DirAlias(i)]

Configs == {[DirAliases |-> DirAliases(n)] : n \in 0..MaxList}

\* initialModel: every field but Config at its zero value.
initialModel(cfg) ==
    [Config |-> cfg, Selected |-> <<>>, searchStr |-> <<>>,
     selectedIdx |-> 0, helpShown |-> FALSE, done |-> FALSE]

(***************************************************************************)
(* Update, one operator per case of the switch.                            *)
(***************************************************************************)
\* Mutant: quitting also empties the search string.
CaseCtrlC_ClearsInput(m) ==
    [model |-> [m EXCEPT !.done = TRUE, !.searchStr = <<>>], cmd |-> "tea.Quit"]

CaseCtrlC(m) == [model |-> [m EXCEPT !.done = TRUE], cmd |-> "tea.Quit"]

\* Mutant: ctrl+w clears Selected instead of searchStr.
CaseCtrlW_ClearsSelected(m) ==
    [model |-> [m EXCEPT !.Selected = <<>>], cmd |-> "nil"]

CaseCtrlW(m) == [model |-> [m EXCEPT !.searchStr = <<>>], cmd |-> "nil"]

\* Mutant: the selectedIdx > 0 guard is missing.
CaseUp_NoGuard(m) ==
    [model |-> [m EXCEPT !.selectedIdx = m.selectedIdx - 1], cmd |-> "nil"]

CaseUp(m) ==
    [model |-> IF m.selectedIdx > 0
               THEN [m EXCEPT !.selectedIdx = m.selectedIdx - 1]
               ELSE m,
     cmd |-> "nil"]

\* Mutant: the list-length guard is missing.
CaseDown_NoLenCheck(m) ==
    [model |-> IF m.selectedIdx < 9
               THEN [m EXCEPT !.selectedIdx = m.selectedIdx + 1]
               ELSE m,
     cmd |-> "nil"]

\* Mutant: the ten-row guard is missing.
CaseDown_NoNineCap(m) ==
    [model |-> IF m.selectedIdx < len(m.Config.DirAliases) - 1
               THEN [m EXCEPT !.selectedIdx = m.selectedIdx + 1]
               ELSE m,
     cmd |-> "nil"]

\* Mutant: moving down also writes the highlighted alias to Selected.
CaseDown_SelectsAlias(m) ==
    [model |-> IF m.selectedIdx < 9
                  /\ m.selectedIdx < len(m.Config.DirAliases) - 1
               THEN [m EXCEPT !.selectedIdx = m.selectedIdx + 1,
                              !.Selected = m.Config.DirAliases[m.selectedIdx + 2].Alias]
               ELSE m,
     cmd |-> "nil"]

CaseDown(m) ==
    [model |-> IF m.selectedIdx < 9
                  /\ m.selectedIdx < len(m.Config.DirAliases) - 1
               THEN [m EXCEPT !.selectedIdx = m.selectedIdx + 1]
               ELSE m,
     cmd |-> "nil"]

\* Mutant: enter sets done but returns no command.
CaseEnter_NoQuit(m) == [model |-> [m EXCEPT !.done = TRUE], cmd |-> "nil"]

\* Mutant: enter flips done instead of setting it.
CaseEnter_ToggleDone(m) ==
    [model |-> [m EXCEPT !.done = ~m.done], cmd |-> "tea.Quit"]

CaseEnter(m) == [model |-> [m EXCEPT !.done = TRUE], cmd |-> "tea.Quit"]

\* Mutant: backspace drops the first byte instead of the last.
CaseBackspace_DropFirst(m) ==
    [model |-> IF len(m.searchStr) >= 1
               THEN [m EXCEPT !.searchStr = Tail(m.searchStr)]
               ELSE m,
     cmd |-> "nil"]

CaseBackspace(m) ==
    [model |-> IF len(m.searchStr) >= 1
               THEN [m EXCEPT !.searchStr =
                        SubSeq(m.searchStr, 1, len(m.searchStr) - 1)]
               ELSE m,
     cmd |-> "nil"]

\* Mutant: "?" shows the help block but never hides it.
CaseHelp_OnlyShows(m) == [model |-> [m EXCEPT !.helpShown = TRUE], cmd |-> "nil"]

CaseHelp(m) == [model |-> [m EXCEPT !.helpShown = ~m.helpShown], cmd |-> "nil"]

\* Mutant: the one-byte test is missing, any unbound key string is typed.
CaseDefault_NoLenCheck(m, s) ==
    [model |-> [m EXCEPT !.searchStr = m.searchStr \o s,
                         !.Selected = m.searchStr \o s],
     cmd |-> "nil"]

CaseDefault(m, s) ==
    [model |-> IF len(s) = 1
               THEN [m EXCEPT !.searchStr = m.searchStr \o s,
                              !.Selected = m.searchStr \o s]
               ELSE m,
     cmd |-> "nil"]

Update(m, k) ==
    IF k.type = "KeyMsg"
    THEN LET s == String(k)
         IN  CASE s = KeyCtrlC -> CaseCtrlC(m)
               [] s = KeyCtrlW -> CaseCtrlW(m)
               [] s \in {KeyUp, KeyCtrlP} -> CaseUp(m)
               [] s \in {KeyDown, KeyCtrlN} -> CaseDown(m)
               [] s = KeyEnter -> CaseEnter(m)
               [] s = KeyBackspace -> CaseBackspace(m)
               [] s = KeyHelp -> CaseHelp(m)
               [] OTHER -> CaseDefault(m, s)
    ELSE [model |-> m, cmd |-> "nil"]

(***************************************************************************)
(* View.  The frame is kept in its parts: the header, the candidate rows   *)
(* in the order they are appended to s, and the help lines.  A row is the  *)
(* text fmt.Sprintf produces and the style that renders it.                *)
(***************************************************************************)
\* UTF-8 continuation bytes; fmt pads %-Ns by runes, not by bytes.
IsContinuation(b) == b \in {"0xA9"}

\* utf8.RuneCountInString: the bytes that start a rune.
RuneCount(s) == Cardinality({j \in 1..Len(s) : ~IsContinuation(s[j])})

\* %-Ns: the string, then spaces up to width w.
PadRight(s, w) == s \o Rep(" ", Max(0, w - RuneCount(s)))

\* for _, a := range DirAliases { if len(a.Alias) > maxLenAlias ... }
\* Mutant: the width is taken over the ten displayed candidates only.
RECURSIVE maxLenAlias_VisibleOnly(_)
maxLenAlias_VisibleOnly(as) ==
    IF as = <<>> THEN 0
    ELSE LET rest == maxLenAlias_VisibleOnly(SubSeq(as, 1, Len(as) - 1))
             a == as[Len(as)]
         IN  IF Len(as) <= 10 /\ len(a.Alias) > rest THEN len(a.Alias) ELSE rest

RECURSIVE maxLenAlias(_)
maxLenAlias(as) ==
    IF as = <<>> THEN 0
    ELSE LET rest == maxLenAlias(SubSeq(as, 1, Len(as) - 1))
             a == as[Len(as)]
         IN  IF len(a.Alias) > rest THEN len(a.Alias) ELSE rest

RECURSIVE maxLenPath(_)
maxLenPath(as) ==
    IF as = <<>> THEN 0
    ELSE LET rest == maxLenPath(SubSeq(as, 1, Len(as) - 1))
             a == as[Len(as)]
         IN  IF len(a.Path) > rest THEN len(a.Path) ELSE rest

\* fmtStr = "  %-<maxLenAlias>s  %-<maxLenPath+1>s ", kept as its two widths.
fmtStr(as) == [alias |-> maxLenAlias(as), path |-> maxLenPath(as) + 1]

\* fmt.Sprintf(fmtStr, a.Alias, a.Path)
Sprintf(f, alias, path) ==
    <<" ", " ">> \o PadRight(alias, f.alias)
        \o <<" ", " ">> \o PadRight(path, f.path) \o <<" ">>

\* The loop over DirAliases from Go index i on (DirAliases[i] is as[i + 1]):
\* the selected row is appended and the loop continues before the i >= 9
\* test; any other row is appended and the loop breaks when i >= 9.
\* Mutant: an empty list renders one blank selected row.
RECURSIVE ViewRows_BlankRowWhenEmpty(_, _, _, _)
ViewRows_BlankRowWhenEmpty(m, f, i, rows) ==
    LET as == m.Config.DirAliases
    IN  IF len(as) = 0
        THEN <<[style |-> "selected", text |-> <<" ", " ", " ", " ", " ", " ">>]>>
        ELSE IF i >= len(as) THEN rows
        ELSE IF i = m.selectedIdx
        THEN ViewRows_BlankRowWhenEmpty(m, f, i + 1,
                 Append(rows, [style |-> "selected", text |-> Sprintf(f, as[i + 1].Alias, as[i + 1].Path)]))
        ELSE LET rows2 == Append(rows, [style |-> "rest", text |-> Sprintf(f, as[i + 1].Alias, as[i + 1].Path)])
             IN  IF i >= 9 THEN rows2 ELSE ViewRows_BlankRowWhenEmpty(m, f, i + 1, rows2)

\* Mutant: the selected row is looked for one index too far.
RECURSIVE ViewRows_SelectedOffByOne(_, _, _, _)
ViewRows_SelectedOffByOne(m, f, i, rows) ==
    LET as == m.Config.DirAliases
    IN  IF i >= len(as) THEN rows
        ELSE IF i = m.selectedIdx + 1
        THEN ViewRows_SelectedOffByOne(m, f, i + 1,
                 Append(rows, [style |-> "selected", text |-> Sprintf(f, as[i + 1].Alias, as[i + 1].Path)]))
        ELSE LET rows2 == Append(rows, [style |-> "rest", text |-> Sprintf(f, as[i + 1].Alias, as[i + 1].Path)])
             IN  IF i >= 9 THEN rows2 ELSE ViewRows_SelectedOffByOne(m, f, i + 1, rows2)

RECURSIVE ViewRows(_, _, _, _)
ViewRows(m, f, i, rows) ==
    LET as == m.Config.DirAliases
    IN  IF i >= len(as) THEN rows
        ELSE IF i = m.selectedIdx
        THEN ViewRows(m, f, i + 1,
                 Append(rows, [style |-> "selected", text |-> Sprintf(f, as[i + 1].Alias, as[i + 1].Path)]))
        ELSE LET rows2 == Append(rows, [style |-> "rest", text |-> Sprintf(f, as[i + 1].Alias, as[i + 1].Path)])
             IN  IF i >= 9 THEN rows2 ELSE ViewRows(m, f, i + 1, rows2)

\* Mutant: the two help blocks are swapped.
ViewHelp_Swapped(m) ==
    IF ~m.helpShown
    THEN <<"?         hide key bindings", "ctrl+n/down  move selection down",
           "ctrl+p/up  move selection up", "ctrl+w    clear search string",
           "ctrl+c    quit">>
    ELSE <<"?         show key bindings", "ctrl+c    quit">>

ViewHelp(m) ==
    IF m.helpShown
    THEN <<"?         hide key bindings", "ctrl+n/down  move selection down",
           "ctrl+p/up  move selection up", "ctrl+w    clear search string",
           "ctrl+c    quit">>
    ELSE <<"?         show key bindings", "ctrl+c    quit">>

\* Mutant: the cursor is drawn whether or not the session is done.
ViewHeader_CursorAlways(m) ==
    [prompt |-> "Which project do you want to open?\n> ",
     input |-> m.searchStr,
     cursor |-> TRUE]

\* The header: the prompt, searchStr and, unless done, the cursor.
ViewHeader(m) ==
    [prompt |-> "Which project do you want to open?\n> ",
     input |-> m.searchStr,
     cursor |-> ~m.done]

View(m) ==
    [header |-> ViewHeader(m),
     rows |-> ViewRows(m, fmtStr(m.Config.DirAliases), 0, <<>>),
     help |-> ViewHelp(m)]

(***************************************************************************)
(* The program: the driver delivers one message at a time to Update and    *)
(* keeps the returned model and command.  other is the Model of a second   *)
(* session; it is only driven by PairSpec below and idle here.             *)
(***************************************************************************)
Init ==
    /\ \E cfg \in Configs :
         LET m == initialModel(cfg)
         IN  /\ Config = m.Config
             /\ Selected = m.Selected
             /\ searchStr = m.searchStr
             /\ selectedIdx = m.selectedIdx
             /\ helpShown = m.helpShown
             /\ done = m.done
    /\ msg = NoMsg
    /\ cmd = "nil"
    /\ other = initialModel([DirAliases |-> <<>>])

Apply(k) ==
    LET r == Update(Model, k)
    IN  /\ Config' = r.model.Config
        /\ Selected' = r.model.Selected
        /\ searchStr' = r.model.searchStr
        /\ selectedIdx' = r.model.selectedIdx
        /\ helpShown' = r.model.helpShown
        /\ done' = r.model.done
        /\ msg' = k
        /\ cmd' = r.cmd

Deliver(k) == Apply(k) /\ UNCHANGED other

Quit == Deliver(KeyMsg(KeyCtrlC))
ClearInput == Deliver(KeyMsg(KeyCtrlW))
MoveUp == \E s \in {KeyUp, KeyCtrlP} : Deliver(KeyMsg(s))
MoveDown == \E s \in {KeyDown, KeyCtrlN} : Deliver(KeyMsg(s))
Confirm == Deliver(KeyMsg(KeyEnter))
Erase == Deliver(KeyMsg(KeyBackspace))
ToggleHelp == Deliver(KeyMsg(KeyHelp))
TypeRune == \E s \in RuneKeys : len(searchStr) < MaxLen /\ Deliver(KeyMsg(s))
OtherKey == \E s \in OtherKeys : Deliver(KeyMsg(s))
OtherMsg == Deliver(WindowSizeMsg)

Next ==
    \/ Quit
    \/ ClearInput
    \/ MoveUp
    \/ MoveDown
    \/ Confirm
    \/ Erase
    \/ ToggleHelp
    \/ TypeRune
    \/ OtherKey
    \/ OtherMsg

Spec == Init /\ [][Next]_vars

(***************************************************************************)
(* Two sessions side by side, each with its own candidate list.  An edit   *)
(* key (a rune, backspace, ctrl+w) is delivered to both; a navigation or   *)
(* help key is delivered to one of them only.                              *)
(***************************************************************************)
\* Candidate list lengths of the two sessions.
PairLens == {0, 2, MaxList}

EditKeys == RuneKeys \cup {KeyBackspace, KeyCtrlW}
NavKeys == {KeyUp, KeyCtrlP, KeyDown, KeyCtrlN, KeyHelp}

PairInit ==
    /\ \E n1 \in PairLens, n2 \in PairLens :
         LET m == initialModel([DirAliases |-> DirAliases(n1)])
         IN  /\ Config = m.Config
             /\ Selected = m.Selected
             /\ searchStr = m.searchStr
             /\ selectedIdx = m.selectedIdx
             /\ helpShown = m.helpShown
             /\ done = m.done
             /\ other = initialModel([DirAliases |-> DirAliases(n2)])
    /\ msg = NoMsg
    /\ cmd = "nil"

PairEdit ==
    \E s \in EditKeys :
        /\ s \in RuneKeys => len(searchStr) < MaxLen
        /\ Apply(KeyMsg(s))
        /\ other' = Update(other, KeyMsg(s)).model

PairNavFirst == \E s \in NavKeys : Apply(KeyMsg(s)) /\ UNCHANGED other

PairNavOther ==
    \E s \in NavKeys :
        /\ other' = Update(other, KeyMsg(s)).model
        /\ UNCHANGED <<Config, Selected, searchStr, selectedIdx, helpShown,
                       done, msg, cmd>>

PairNext ==
    \/ PairEdit
    \/ PairNavFirst
    \/ PairNavOther

PairSpec == PairInit /\ [][PairNext]_vars

(***************************************************************************)
(* Vocabulary of the properties.                                           *)
(***************************************************************************)
IsKey(k, keys) == k.type = "KeyMsg" /\ k.str \in keys
IsQuit(k) == IsKey(k, {KeyCtrlC})
IsConfirm(k) == IsKey(k, {KeyEnter})
IsClearInput(k) == IsKey(k, {KeyCtrlW})
IsMoveUp(k) == IsKey(k, {KeyUp, KeyCtrlP})
IsMoveDown(k) == IsKey(k, {KeyDown, KeyCtrlN})
IsErase(k) == IsKey(k, {KeyBackspace})
IsToggleHelp(k) == IsKey(k, {KeyHelp})
\* PrintableChar(c): a key that carries exactly one character and is not
\* bound to another event.
IsPrintableChar(k) ==
    k.type = "KeyMsg" /\ k.str \notin BoundKeys /\ RuneCount(k.str) = 1

\* Number of candidates, and the highest index navigation may reach.
NumCandidates == len(Config.DirAliases)
IndexCap == Min(9, NumCandidates - 1)

\* Every field of the selector state keeps its value in the step.
StateUnchanged ==
    /\ Config' = Config
    /\ Selected' = Selected
    /\ searchStr' = searchStr
    /\ selectedIdx' = selectedIdx
    /\ helpShown' = helpShown
    /\ done' = done

\* The row texts of the first min(10, n) candidates, in list order.
FirstTenTexts ==
    LET f == fmtStr(Config.DirAliases)
    IN  [i \in 1..Min(10, NumCandidates) |->
            Sprintf(f, Config.DirAliases[i].Alias, Config.DirAliases[i].Path)]

RowTexts(rows) == [i \in 1..Len(rows) |-> rows[i].text]

(***************************************************************************)
(* C1: once done is true, no further event delivered to Update changes any *)
(* field of the selector state.                                            *)
(***************************************************************************)
C1_DoneFreezesState == [][done => StateUnchanged]_vars

(***************************************************************************)
(* C2: in every reachable state, for every candidate list including the    *)
(* empty one, 0 <= selectedIdx <= min(9, len(DirAliases) - 1).             *)
(***************************************************************************)
C2_IndexWithinCap == 0 <= selectedIdx /\ selectedIdx <= IndexCap

\* C2 as amended: the upper bound is min(9, len - 1) for a non-empty list
\* and 0 for the empty list, where min(9, len - 1) is -1.
C2_IndexWithinCapOrZero ==
    0 <= selectedIdx /\ selectedIdx <= Max(0, IndexCap)

C2_Witness ==
    /\ IsMoveDown(msg)
    /\ \/ NumCandidates = 0 /\ selectedIdx = 0
       \/ NumCandidates > 10 /\ selectedIdx = 9

(***************************************************************************)
(* C3: the candidate rows of the frame rendered from any reachable state   *)
(* are exactly the first min(10, len(DirAliases)) candidates in list       *)
(* order; with 12 entries and selectedIdx = 9 the candidate at index 10 is *)
(* not rendered.                                                           *)
(***************************************************************************)
C3_RowsAreFirstTen == RowTexts(View(Model).rows) = FirstTenTexts

(***************************************************************************)
(* C4: with a non-empty list, a MoveDown event adds exactly 1 to           *)
(* selectedIdx when selectedIdx < min(9, n - 1) and is a no-op otherwise,  *)
(* so selectedIdx stays at min(9, n - 1) once it is there.                 *)
(***************************************************************************)
C4_MoveDownStep ==
    [][(IsMoveDown(msg') /\ NumCandidates > 0) =>
          IF selectedIdx < IndexCap
          THEN selectedIdx' = selectedIdx + 1
          ELSE StateUnchanged]_vars

C4_Witness ==
    IsMoveDown(msg) /\ NumCandidates > 10 /\ selectedIdx = IndexCap

(***************************************************************************)
(* C5: a MoveUp event subtracts exactly 1 from selectedIdx when it is      *)
(* above 0 and is a no-op at 0; selectedIdx never becomes negative.        *)
(***************************************************************************)
C5_MoveUpStep ==
    [][IsMoveUp(msg') =>
          /\ IF selectedIdx > 0
             THEN selectedIdx' = selectedIdx - 1
             ELSE StateUnchanged
          /\ selectedIdx' >= 0]_vars

C5_Witness == IsMoveUp(msg) /\ selectedIdx = 0 /\ NumCandidates > 1

(***************************************************************************)
(* C6: Update returns tea.Quit exactly for ctrl+c and enter; both set done *)
(* and leave searchStr, selectedIdx, helpShown and Selected unchanged;     *)
(* every other message returns no command and leaves done unchanged.       *)
(***************************************************************************)
C6_QuitSignal ==
    [][IF IsQuit(msg') \/ IsConfirm(msg')
       THEN /\ cmd' = "tea.Quit"
            /\ done'
            /\ searchStr' = searchStr
            /\ selectedIdx' = selectedIdx
            /\ helpShown' = helpShown
            /\ Selected' = Selected
       ELSE /\ cmd' = "nil"
            /\ done' = done]_vars

C6_Witness ==
    IsConfirm(msg) /\ cmd = "tea.Quit" /\ done /\ searchStr # <<>>
        /\ selectedIdx > 0 /\ helpShown

(***************************************************************************)
(* C7: done is false initially, and once an Update has set it no later     *)
(* Update of any message resets it.                                        *)
(***************************************************************************)
C7_DoneMonotonic == ~done /\ [][done => done']_vars

C7_Witness == done /\ msg.type = "KeyMsg" /\ ~IsQuit(msg) /\ ~IsConfirm(msg)

(***************************************************************************)
(* C8: every PrintableChar(c) event carrying a single character c appends  *)
(* c to searchStr, sets Selected to the new searchStr and leaves           *)
(* selectedIdx unchanged.                                                  *)
(***************************************************************************)
C8_PrintableCharAppends ==
    [][IsPrintableChar(msg') =>
          /\ searchStr' = searchStr \o msg'.str
          /\ Selected' = searchStr'
          /\ selectedIdx' = selectedIdx]_vars

(***************************************************************************)
(* C9: ClearInput in any state, in particular after any sequence of        *)
(* PrintableChar events, leaves searchStr empty.                           *)
(***************************************************************************)
C9_ClearInputEmpties == IsClearInput(msg) => searchStr = <<>>

C9_Witness == IsClearInput(msg) /\ searchStr = <<>> /\ Len(Selected) = MaxLen

(***************************************************************************)
(* C10: Erase drops exactly the last character of a non-empty searchStr    *)
(* and is a no-op on the whole state when searchStr is empty.              *)
(***************************************************************************)
C10_EraseStep ==
    [][IsErase(msg') =>
          IF searchStr # <<>>
          THEN /\ \E c \in RuneKeys : searchStr = searchStr' \o c
               /\ RuneCount(searchStr') = RuneCount(searchStr) - 1
          ELSE StateUnchanged]_vars

C10_Witness == IsErase(msg) /\ Len(searchStr) = 1 /\ Len(Selected) = 2

(***************************************************************************)
(* C11: each ToggleHelp negates helpShown and leaves every other field     *)
(* unchanged, so two in a row restore helpShown.                           *)
(***************************************************************************)
C11_ToggleHelpStep ==
    [][IsToggleHelp(msg') =>
          /\ helpShown' = ~helpShown
          /\ Config' = Config
          /\ Selected' = Selected
          /\ searchStr' = searchStr
          /\ selectedIdx' = selectedIdx
          /\ done' = done]_vars

\* helpShown is FALSE initially, so this state is reached by a second "?".
C11_Witness ==
    IsToggleHelp(msg) /\ ~helpShown /\ searchStr # <<>> /\ Selected # searchStr

(***************************************************************************)
(* C12: a message that is not a key message, or a key whose string is not  *)
(* a bound key and not exactly one character long, changes no field and    *)
(* returns no command.                                                     *)
(***************************************************************************)
IsUnrecognized(k) ==
    \/ k.type # "KeyMsg"
    \/ k.str \notin BoundKeys /\ RuneCount(k.str) # 1

C12_UnrecognizedIsNoOp ==
    [][IsUnrecognized(msg') => StateUnchanged /\ cmd' = "nil"]_vars

C12_Witness ==
    /\ IsKey(msg, OtherKeys)
    /\ cmd = "nil"
    /\ searchStr # <<>> /\ selectedIdx > 0 /\ helpShown /\ done

(***************************************************************************)
(* C13: the length of searchStr decreases only in a ClearInput or Erase    *)
(* step; any other step leaves it unchanged or, for a PrintableChar, adds  *)
(* one.                                                                    *)
(***************************************************************************)
C13_ShrinksOnlyByClearOrErase ==
    [][/\ RuneCount(searchStr') < RuneCount(searchStr)
            => IsClearInput(msg') \/ IsErase(msg')
       /\ ~(IsClearInput(msg') \/ IsErase(msg'))
            => \/ RuneCount(searchStr') = RuneCount(searchStr)
               \/ /\ IsPrintableChar(msg')
                  /\ RuneCount(searchStr') = RuneCount(searchStr) + 1]_vars

C13_Witness == IsQuit(msg) /\ Len(searchStr) = MaxLen

(***************************************************************************)
(* Vocabulary of the frame properties.                                     *)
(***************************************************************************)
Frame == View(Model)

\* The largest number of a finite set of naturals, 0 for the empty set.
SetMax(S) == CHOOSE x \in S \cup {0} : \A y \in S \cup {0} : y <= x

\* Column widths: the longest alias and the longest path of the whole list.
MaxNameWidth ==
    SetMax({len(Config.DirAliases[i].Alias) : i \in 1..NumCandidates})
MaxLocationWidth ==
    SetMax({len(Config.DirAliases[i].Path) : i \in 1..NumCandidates})

\* s followed by spaces up to w characters.
Padded(s, w) == s \o [j \in 1..(w - RuneCount(s)) |-> " "]

(***************************************************************************)
(* C14: with an empty candidate list the frame of every reachable state    *)
(* has the header, the help block and no candidate row.                    *)
(***************************************************************************)
C14_EmptyListFrame ==
    NumCandidates = 0 =>
        LET frame == Frame
        IN  /\ frame.rows = <<>>
            /\ frame.header.prompt = "Which project do you want to open?\n> "
            /\ frame.header.input = searchStr
            /\ Len(frame.help) >= 2

C14_Witness ==
    NumCandidates = 0 /\ IsMoveDown(msg) /\ helpShown /\ searchStr # <<>>

(***************************************************************************)
(* C15: with a non-empty list, exactly one rendered row is marked          *)
(* selected, it is the row of the candidate at selectedIdx, and every      *)
(* other rendered row is marked rest.                                      *)
(***************************************************************************)
C15_OneHighlightedRow ==
    NumCandidates > 0 =>
        LET rows == Frame.rows
        IN  /\ selectedIdx + 1 \in 1..Len(rows)
            /\ Cardinality({i \in 1..Len(rows) : rows[i].style = "selected"}) = 1
            /\ \A i \in 1..Len(rows) :
                 rows[i].style = IF i = selectedIdx + 1 THEN "selected" ELSE "rest"
            /\ rows[selectedIdx + 1].text
                 = Sprintf(fmtStr(Config.DirAliases),
                           Config.DirAliases[selectedIdx + 1].Alias,
                           Config.DirAliases[selectedIdx + 1].Path)

C15_Witness == IsMoveDown(msg) /\ NumCandidates > 10 /\ selectedIdx = 9

(***************************************************************************)
(* C16: every rendered row shows its alias padded to the longest alias and *)
(* its path padded to the longest path of the entire list, entries beyond  *)
(* the tenth included, so all rows of a frame are equally wide.            *)
(***************************************************************************)
C16_ColumnsPaddedToListMax ==
    LET rows == Frame.rows
        nameWidth == MaxNameWidth
        locationWidth == MaxLocationWidth
    IN  \A i \in 1..Len(rows) :
            LET a == Config.DirAliases[i]
            IN  /\ rows[i].text
                     = <<" ", " ">> \o Padded(a.Alias, nameWidth)
                         \o <<" ", " ">> \o Padded(a.Path, locationWidth)
                         \o <<" ", " ">>
                /\ RuneCount(rows[i].text) = nameWidth + locationWidth + 6

C16_Witness ==
    NumCandidates > 10 /\ Len(Frame.rows) = 10 /\ selectedIdx > 0
        /\ MaxNameWidth > len(Config.DirAliases[selectedIdx + 1].Alias)

(***************************************************************************)
(* C17: the header is the prompt followed by searchStr, with the cursor    *)
(* exactly when done is false; the frame after ctrl+c or enter has none.   *)
(***************************************************************************)
C17_HeaderAndCursor ==
    LET header == ViewHeader(Model)
    IN  /\ header.prompt = "Which project do you want to open?\n> "
        /\ header.input = searchStr
        /\ header.cursor <=> ~done
        /\ (IsQuit(msg) \/ IsConfirm(msg)) => ~header.cursor

C17_Witness == IsQuit(msg) /\ searchStr # <<>> /\ ~ViewHeader(Model).cursor

(***************************************************************************)
(* C18: the frame ends with the five-entry key binding block exactly when  *)
(* helpShown is true and with the two-line block exactly when it is false. *)
(***************************************************************************)
C18_HelpBlock ==
    LET help == ViewHelp(Model)
    IN  /\ helpShown <=>
             help = <<"?         hide key bindings",
                      "ctrl+n/down  move selection down",
                      "ctrl+p/up  move selection up",
                      "ctrl+w    clear search string",
                      "ctrl+c    quit">>
        /\ ~helpShown <=>
             help = <<"?         show key bindings", "ctrl+c    quit">>

C18_Witness == IsToggleHelp(msg) /\ helpShown /\ Len(ViewHelp(Model)) = 5

(***************************************************************************)
(* C19: Selected is written only by PrintableChar events, so after every   *)
(* PrintableChar step it equals the new searchStr and every other step     *)
(* leaves it unchanged (it is the searchStr of the most recent             *)
(* PrintableChar event, or empty when there was none).                     *)
(***************************************************************************)
C19_SelectedIsLastTyped ==
    (Selected = <<>>)
        /\ [][IF IsPrintableChar(msg')
              THEN Selected' = searchStr'
              ELSE Selected' = Selected]_vars

(***************************************************************************)
(* C20: two sessions fed the same PrintableChar, Erase and ClearInput      *)
(* events, but different MoveUp, MoveDown and ToggleHelp events and        *)
(* different candidate lists, always agree on Selected and searchStr; and  *)
(* typing, erasing and clearing never change selectedIdx.                  *)
(***************************************************************************)
C20_SelectionIndependentOfNavigation ==
    /\ [](Selected = other.Selected /\ searchStr = other.searchStr)
    /\ [][IsKey(msg', EditKeys) => selectedIdx' = selectedIdx]_vars

C20_Witness ==
    /\ Selected = other.Selected /\ searchStr = other.searchStr
    /\ Selected # <<>> /\ searchStr # Selected
    /\ IsKey(msg, EditKeys)
    /\ selectedIdx > 0 /\ other.selectedIdx = 0
    /\ helpShown /\ ~other.helpShown
    /\ Config # other.Config

====
